---- MODULE Spec2Model ----
(***************************************************************************)
(* Model of the Guild Wars wiki tool server: the dispatcher call_tool      *)
(* (server.py) and the fetch / extract / format pipelines (wiki_parser.py) *)
(* for the tools get_quest_info, get_skill_info and get_pve_builds.        *)
(*                                                                         *)
(* Strings are sequences of one-character strings, so that lower(),        *)
(* title(), replace(), strip(), startswith() and substring tests are       *)
(* computed.  A rendered text is a sequence of lines; a line is a literal  *)
(* template of the source with the values substituted into it.             *)
(***************************************************************************)
EXTENDS Integers, Sequences, FiniteSets, TLC

(* ------------------------------ bounds -------------------------------- *)
MaxLinks == 2
MaxBlocks == 3
MaxItems == 2
MaxRows == 2

(* ------------------------------ strings ------------------------------- *)
UPPER == <<"A","B","C","D","E","F","G","H","I","J","K","L","M",
           "N","O","P","Q","R","S","T","U","V","W","X","Y","Z">>
LOWER == <<"a","b","c","d","e","f","g","h","i","j","k","l","m",
           "n","o","p","q","r","s","t","u","v","w","x","y","z">>

IsUpper(c) == \E i \in 1..Len(UPPER) : UPPER[i] = c
IsLower(c) == \E i \in 1..Len(LOWER) : LOWER[i] = c
IsAlpha(c) == IsUpper(c) \/ IsLower(c)
LowerChar(c) == IF IsUpper(c) THEN LOWER[CHOOSE i \in 1..Len(UPPER) : UPPER[i] = c] ELSE c
UpperChar(c) == IF IsLower(c) THEN UPPER[CHOOSE i \in 1..Len(LOWER) : LOWER[i] = c] ELSE c

\* str.lower()
Lower(s) == [i \in 1..Len(s) |-> LowerChar(s[i])]

\* str.title(): a letter that follows a non-letter is upper-cased, every other one lower-cased
Title(s) == [i \in 1..Len(s) |->
               IF i = 1 \/ ~IsAlpha(s[i-1]) THEN UpperChar(s[i]) ELSE LowerChar(s[i])]

\* str.replace(' ', '_')
ReplaceSpace(s) == [i \in 1..Len(s) |-> IF s[i] = " " THEN "_" ELSE s[i]]

\* str.startswith("/")
StartsWithSlash(s) == Len(s) >= 1 /\ s[1] = "/"

IsSpace(c) == c \in {" ", "\n", "\t"}

RECURSIVE LStrip(_)
LStrip(s) == IF s # <<>> /\ IsSpace(Head(s)) THEN LStrip(Tail(s)) ELSE s

RECURSIVE RStrip(_)
RStrip(s) == IF s # <<>> /\ IsSpace(s[Len(s)]) THEN RStrip(SubSeq(s, 1, Len(s) - 1)) ELSE s

\* str.strip()
Strip(s) == RStrip(LStrip(s))

\* sub in s
Contains(s, sub) == \E i \in 1..(Len(s) - Len(sub) + 1) : SubSeq(s, i, i + Len(sub) - 1) = sub

RECURSIVE Concat(_)
Concat(ss) == IF ss = <<>> THEN <<>> ELSE Head(ss) \o Concat(Tail(ss))

\* sep.join(ss)
RECURSIVE Join(_, _)
Join(sep, ss) == IF ss = <<>> THEN <<>>
                 ELSE IF Len(ss) = 1 THEN ss[1]
                 ELSE ss[1] \o sep \o Join(sep, Tail(ss))

(* ------------------------- values and options ------------------------- *)
\* a value of the argument bag: a string, an integer, or the key is missing
StrV(s) == [t |-> "str", s |-> s, n |-> 0]
IntV(n) == [t |-> "int", s |-> <<>>, n |-> n]
Missing == [t |-> "missing", s |-> <<>>, n |-> 0]

\* Python truthiness of a value read with .get(): None, 0 and "" are falsy
Truthy(v) == CASE v.t = "int" -> v.n # 0
               [] v.t = "str" -> v.s # <<>>
               [] OTHER -> FALSE

\* Optional[...]: None, or a present sequence / string
None == [some |-> FALSE, v |-> <<>>]
Some(x) == [some |-> TRUE, v |-> x]

\* truthiness of an optional list or string: None, [] and "" are falsy
NonEmpty(o) == o.some /\ o.v # <<>>

(* ------------------------- program constants -------------------------- *)
WIKI_BASE_URL == <<"h","t","t","p","s",":","/","/","w","i","k","i",".","g","u","i","l","d",
                   "w","a","r","s",".","c","o","m","/","w","i","k","i">>
GWPVX_BASE_URL == <<"h","t","t","p","s",":","/","/","g","w","p","v","x",".","f","a","n",
                    "d","o","m",".","c","o","m","/","w","i","k","i">>

Slug_general == <<"g","e","n","e","r","a","l">>
Slug_farming == <<"f","a","r","m","i","n","g">>
Slug_running == <<"r","u","n","n","i","n","g">>
Slug_quest == <<"q","u","e","s","t">>
Slug_hero == <<"h","e","r","o">>
Slug_speedclear == <<"s","p","e","e","d","c","l","e","a","r">>
Slug_teams == <<"t","e","a","m","s">>

\* the keys of PVE_BUILD_CATEGORIES, in insertion order
CategoryKeys == <<Slug_general, Slug_farming, Slug_running, Slug_quest,
                  Slug_hero, Slug_speedclear, Slug_teams>>

\* the values of PVE_BUILD_CATEGORIES, in the same order
PathPrefix == <<"C","a","t","e","g","o","r","y",":","A","l","l","_","w","o","r","k","i","n","g","_">>
BuildsSuffix == <<"_","b","u","i","l","d","s">>
CategoryPaths == <<PathPrefix \o <<"g","e","n","e","r","a","l">> \o BuildsSuffix,
                   PathPrefix \o <<"f","a","r","m","i","n","g">> \o BuildsSuffix,
                   PathPrefix \o <<"r","u","n","n","i","n","g">> \o BuildsSuffix,
                   PathPrefix \o <<"q","u","e","s","t">> \o BuildsSuffix,
                   PathPrefix \o <<"h","e","r","o">> \o BuildsSuffix,
                   PathPrefix \o <<"S","C">> \o BuildsSuffix,
                   PathPrefix \o <<"P","v","E","_","t","e","a","m">> \o BuildsSuffix>>

\* category in PVE_BUILD_CATEGORIES
InCategories(c) == \E i \in 1..Len(CategoryKeys) : CategoryKeys[i] = c

\* PVE_BUILD_CATEGORIES[category]
PVE_BUILD_CATEGORIES(c) == CategoryPaths[CHOOSE i \in 1..Len(CategoryKeys) : CategoryKeys[i] = c]

(* ------------------------------ markup -------------------------------- *)
\* A page is a body of top-level blocks (quest page), a list of tables and an
\* optional description element (skill page), and a list of anchors (category page).
\*   block:  tag, the id of a span child (<<>> when it has none), its text, its <li> texts
\*   table:  has the class skill-box or not, rows, each row a sequence of cell texts
\*   link:   an <a>: has the class category-page__member-link, lies under
\*           div#mw-pages li, its text, its href attribute (None when it has none)
Block(tag, span, text, items) == [tag |-> tag, span |-> span, text |-> text, items |-> items]
Page(blocks, tables, desc, links) ==
    [blocks |-> blocks, tables |-> tables, desc |-> desc, links |-> links]

\* Tag.get_text(strip=True): every text node stripped, the empty ones dropped, joined by ""
get_text(b) == IF b.tag \in {"ul", "ol"}
               THEN Concat([k \in 1..Len(b.items) |-> Strip(b.items[k])])
               ELSE Strip(b.text)

(* --------------------------- quest pipeline --------------------------- *)
\* the ids parse_quest_page looks for
Id_Objectives == <<"O","b","j","e","c","t","i","v","e","s">>
Id_Reward == <<"R","e","w","a","r","d">>
Id_Walkthrough == <<"W","a","l","k","t","h","r","o","u","g","h">>
Id_Notes == <<"N","o","t","e","s">>

\* soup.find('span', id=ident): the first span with that id, 0 when there is none
FindSpan(blocks, ident) ==
    IF \E i \in 1..Len(blocks) : blocks[i].span = ident
    THEN CHOOSE i \in 1..Len(blocks) :
            /\ blocks[i].span = ident
            /\ \A j \in 1..(i-1) : blocks[j].span # ident
    ELSE 0

\* mutant of FindNextSiblingList: only the sibling right after the parent is looked at
FindNextSiblingList_Adjacent(blocks, i) ==
    IF i + 1 <= Len(blocks) /\ blocks[i+1].tag \in {"ul", "ol"} THEN i + 1 ELSE 0

\* header.find_parent().find_next_sibling(['ul', 'ol']): the first later sibling of the
\* span's parent that is a list, 0 when there is none
FindNextSiblingList(blocks, i) ==
    IF \E j \in (i+1)..Len(blocks) : blocks[j].tag \in {"ul", "ol"}
    THEN CHOOSE j \in (i+1)..Len(blocks) :
            /\ blocks[j].tag \in {"ul", "ol"}
            /\ \A k \in (i+1)..(j-1) : blocks[k].tag \notin {"ul", "ol"}
    ELSE 0

\* [li.get_text(strip=True) for li in the_list.find_all('li')]
ListItemTexts(b) == [k \in 1..Len(b.items) |-> Strip(b.items[k])]

\* the objectives / rewards / notes blocks of parse_quest_page: the list is taken
\* whenever the anchor and a following list element exist (a Tag is always truthy)
ExtractListSection(blocks, ident) ==
    LET h == FindSpan(blocks, ident) IN
    IF h = 0 THEN None
    ELSE LET l == FindNextSiblingList(blocks, h) IN
         IF l = 0 THEN None ELSE Some(ListItemTexts(blocks[l]))

\* the siblings after the walkthrough header, up to the next h2 / h3
RECURSIVE WalkthroughContent(_, _)
WalkthroughContent(blocks, i) ==
    IF i > Len(blocks) THEN <<>>
    ELSE IF blocks[i].tag \in {"h2", "h3"} THEN <<>>
    ELSE (IF blocks[i].tag \in {"p", "ul", "ol"} THEN <<get_text(blocks[i])>> ELSE <<>>)
         \o WalkthroughContent(blocks, i + 1)

ExtractWalkthrough(blocks) ==
    LET h == FindSpan(blocks, Id_Walkthrough) IN
    IF h = 0 THEN None
    ELSE LET content == WalkthroughContent(blocks, h + 1) IN
         IF content # <<>> THEN Some(Join(<<"\n">>, content)) ELSE None

parse_quest_page(html, quest_name) ==
    [name |-> quest_name,
     found |-> TRUE,
     objectives |-> ExtractListSection(html.blocks, Id_Objectives),
     rewards |-> ExtractListSection(html.blocks, Id_Reward),
     walkthrough |-> ExtractWalkthrough(html.blocks),
     notes |-> ExtractListSection(html.blocks, Id_Notes)]

\* one line of a rendered text: a literal of the source with its {} filled by args
Line(lit, args) == [lit |-> lit, args |-> args]
Blank == Line("", <<>>)
Bullets(xs) == [k \in 1..Len(xs) |-> Line("- {}", <<xs[k]>>)]

\* mutant of format_quest_response: Rewards is emitted before Objectives
format_quest_response_Swapped(quest_data) ==
    IF ~quest_data.found
    THEN <<Line("Quest '{}' not found in the Guild Wars Wiki.", <<quest_data.name>>)>>
    ELSE <<Line("# {}", <<quest_data.name>>), Blank>>
         \o (IF NonEmpty(quest_data.rewards)
             THEN <<Line("## Rewards", <<>>)>> \o Bullets(quest_data.rewards.v) \o <<Blank>>
             ELSE <<>>)
         \o (IF NonEmpty(quest_data.objectives)
             THEN <<Line("## Objectives", <<>>)>> \o Bullets(quest_data.objectives.v) \o <<Blank>>
             ELSE <<>>)
         \o (IF NonEmpty(quest_data.walkthrough)
             THEN <<Line("## Walkthrough", <<>>), Line("{}", <<quest_data.walkthrough.v>>), Blank>>
             ELSE <<>>)
         \o (IF NonEmpty(quest_data.notes)
             THEN <<Line("## Notes", <<>>)>> \o Bullets(quest_data.notes.v)
             ELSE <<>>)

format_quest_response(quest_data) ==
    IF ~quest_data.found
    THEN <<Line("Quest '{}' not found in the Guild Wars Wiki.", <<quest_data.name>>)>>
    ELSE <<Line("# {}", <<quest_data.name>>), Blank>>
         \o (IF NonEmpty(quest_data.objectives)
             THEN <<Line("## Objectives", <<>>)>> \o Bullets(quest_data.objectives.v) \o <<Blank>>
             ELSE <<>>)
         \o (IF NonEmpty(quest_data.rewards)
             THEN <<Line("## Rewards", <<>>)>> \o Bullets(quest_data.rewards.v) \o <<Blank>>
             ELSE <<>>)
         \o (IF NonEmpty(quest_data.walkthrough)
             THEN <<Line("## Walkthrough", <<>>), Line("{}", <<quest_data.walkthrough.v>>), Blank>>
             ELSE <<>>)
         \o (IF NonEmpty(quest_data.notes)
             THEN <<Line("## Notes", <<>>)>> \o Bullets(quest_data.notes.v)
             ELSE <<>>)

(* --------------------------- skill pipeline --------------------------- *)
Kw_profession == <<"p","r","o","f","e","s","s","i","o","n">>
Kw_attribute == <<"a","t","t","r","i","b","u","t","e">>
Kw_energy == <<"e","n","e","r","g","y">>
Kw_activation == <<"a","c","t","i","v","a","t","i","o","n">>
Kw_recharge == <<"r","e","c","h","a","r","g","e">>

\* soup.find('table', class_='skill-box'): the first such table, 0 when there is none
FindInfobox(tables) ==
    IF \E i \in 1..Len(tables) : tables[i].box
    THEN CHOOSE i \in 1..Len(tables) : tables[i].box /\ \A j \in 1..(i-1) : ~tables[j].box
    ELSE 0

\* the body of the loop over the rows of the infobox
ApplyRow(result, cells) ==
    IF Len(cells) >= 2
    THEN LET header == Lower(Strip(cells[1]))
             value == Some(Strip(cells[2]))
         IN  IF Contains(header, Kw_profession) THEN [result EXCEPT !.profession = value]
             ELSE IF Contains(header, Kw_attribute) THEN [result EXCEPT !.attribute = value]
             ELSE IF Contains(header, Kw_energy) THEN [result EXCEPT !.energy = value]
             ELSE IF Contains(header, Kw_activation) THEN [result EXCEPT !.activation = value]
             ELSE IF Contains(header, Kw_recharge) THEN [result EXCEPT !.recharge = value]
             ELSE result
    ELSE result

RECURSIVE ApplyRows(_, _)
ApplyRows(result, rows) ==
    IF rows = <<>> THEN result ELSE ApplyRows(ApplyRow(result, Head(rows)), Tail(rows))

\* mutant of parse_skill_page: no early return when the infobox is missing
parse_skill_page_NoEarlyReturn(html, skill_name) ==
    LET infobox == FindInfobox(html.tables)
        result == [name |-> skill_name, found |-> infobox # 0, type |-> None,
                   profession |-> None, attribute |-> None, campaign |-> None, energy |-> None,
                   activation |-> None, recharge |-> None, description |-> None]
        filled == IF infobox = 0 THEN result ELSE ApplyRows(result, html.tables[infobox].rows)
    IN  IF html.desc.some
        THEN [filled EXCEPT !.description = Some(Strip(html.desc.v))]
        ELSE filled

SkillResultInit(skill_name) ==
    [name |-> skill_name, found |-> TRUE, type |-> None, profession |-> None,
     attribute |-> None, campaign |-> None, energy |-> None, activation |-> None,
     recharge |-> None, description |-> None]

parse_skill_page(html, skill_name) ==
    LET result == SkillResultInit(skill_name)
        infobox == FindInfobox(html.tables)
    IN  IF infobox = 0
        THEN [result EXCEPT !.found = FALSE]
        ELSE LET filled == ApplyRows(result, html.tables[infobox].rows)
             IN  IF html.desc.some
                 THEN [filled EXCEPT !.description = Some(Strip(html.desc.v))]
                 ELSE filled

format_skill_response(skill_data) ==
    IF ~skill_data.found
    THEN <<Line("Skill '{}' not found in the Guild Wars Wiki.", <<skill_data.name>>)>>
    ELSE <<Line("# {}", <<skill_data.name>>), Blank>>
         \o (IF NonEmpty(skill_data.profession)
             THEN <<Line("**Profession:** {}", <<skill_data.profession.v>>)>> ELSE <<>>)
         \o (IF NonEmpty(skill_data.attribute)
             THEN <<Line("**Attribute:** {}", <<skill_data.attribute.v>>)>> ELSE <<>>)
         \o (IF NonEmpty(skill_data.campaign)
             THEN <<Line("**Campaign:** {}", <<skill_data.campaign.v>>)>> ELSE <<>>)
         \o <<Blank, Line("**Stats:**", <<>>)>>
         \o (IF NonEmpty(skill_data.energy)
             THEN <<Line("- Energy: {}", <<skill_data.energy.v>>)>> ELSE <<>>)
         \o (IF NonEmpty(skill_data.activation)
             THEN <<Line("- Activation: {}", <<skill_data.activation.v>>)>> ELSE <<>>)
         \o (IF NonEmpty(skill_data.recharge)
             THEN <<Line("- Recharge: {}", <<skill_data.recharge.v>>)>> ELSE <<>>)
         \o (IF NonEmpty(skill_data.description)
             THEN <<Blank, Line("**Description:**", <<>>),
                    Line("{}", <<skill_data.description.v>>)>>
             ELSE <<>>)

(* ----------------------- build category pipeline ---------------------- *)
\* mutant of RewriteHref: every non-empty href is prefixed
RewriteHref_Always(href) == IF href # <<>> THEN GWPVX_BASE_URL \o href ELSE href

\* the href rewriting of parse_pve_builds; href is link.get("href", "")
RewriteHref(href) ==
    IF href # <<>> /\ StartsWithSlash(href) THEN GWPVX_BASE_URL \o href ELSE href

\* the body of both loops of parse_pve_builds
BuildEntry(link) ==
    [name |-> Strip(link.text),
     url |-> RewriteHref(IF link.href.some THEN link.href.v ELSE <<>>)]

IsMemberLink(link) == link.cls
IsLegacyLink(link) == link.legacy

\* soup.select("a.category-page__member-link"), in document order
SelectPrimary(links) == SelectSeq(links, IsMemberLink)

\* soup.select("div#mw-pages li a"), in document order
SelectLegacy(links) == SelectSeq(links, IsLegacyLink)

Entries(links) == [k \in 1..Len(links) |-> BuildEntry(links[k])]

\* mutant of parse_pve_builds: the legacy links are always appended
parse_pve_builds_Mixed(html) ==
    Entries(SelectPrimary(html.links)) \o Entries(SelectLegacy(html.links))

parse_pve_builds(html) ==
    LET builds == Entries(SelectPrimary(html.links))
    IN  IF builds = <<>> THEN Entries(SelectLegacy(html.links)) ELSE builds

\* an exception, and the outcome of a computation that may raise
Exc(type, msg) == [type |-> type, msg |-> msg]
NoExc == Exc("", "")
Returns(text) == [raised |-> FALSE, text |-> text, exc |-> NoExc]
Raises(e) == [raised |-> TRUE, text |-> <<>>, exc |-> e]

\* mutant of SliceTo: the list is not cut
SliceTo_Uncut(builds, n) == builds

\* builds[:limit] for an integer limit
SliceTo(builds, n) ==
    LET N == Len(builds)
        stop == IF n < 0 THEN (IF N + n < 0 THEN 0 ELSE N + n) ELSE (IF n > N THEN N ELSE n)
    IN  SubSeq(builds, 1, stop)

\* the separator of name and url is an em dash in the source, written -- here
BuildLine(build) ==
    IF build.url # <<>> THEN Line("- {} -- {}", <<build.name, build.url>>)
    ELSE Line("- {}", <<build.name>>)

\* limit is what arguments.get("limit") gave: an integer, None (Missing), or a
\* value of another type, whose use as a slice bound raises TypeError
format_pve_builds_response(category, builds, limit) ==
    IF builds = <<>>
    THEN Returns(<<Line("No builds found for category '{}'.", <<category>>)>>)
    ELSE IF Truthy(limit) /\ limit.t # "int"
    THEN Raises(Exc("TypeError",
                    "slice indices must be integers or None or have an __index__ method"))
    ELSE LET sliced == IF Truthy(limit) THEN SliceTo(builds, limit.n) ELSE builds
         IN  Returns(<<Line("# PvE builds - {}", <<Title(category)>>), Blank>>
                     \o [k \in 1..Len(sliced) |-> BuildLine(sliced[k])]
                     \o (IF Truthy(limit) /\ Len(builds) > limit.n
                         THEN <<Blank, Line("Showing first {} builds of {} total.",
                                            <<limit.n, Len(builds)>>)>>
                         ELSE <<>>))

(* ------------------------------- inputs ------------------------------- *)
\* texts of the pages and of the argument bags
T_QuestName == <<"T","h","e"," ","P","a","t","h"," ","t","o"," ","G","l","o","r","y">>
T_SkillName == <<"M","e","t","e","o","r"," ","S","h","o","w","e","r">>
T_Farming == <<"F","a","r","m","i","n","g">>
T_FARMING == <<"F","A","R","M","I","N","G">>
T_invalid == <<"i","n","v","a","l","i","d">>
T_Invalid == <<"I","n","v","a","l","i","d">>
T_two == <<"2">>

ToolNames == {"get_quest_info", "get_skill_info", "get_pve_builds", "get_item_info"}

NoArgs == [quest_name |-> Missing, skill_name |-> Missing, category |-> Missing, limit |-> Missing]

\* a required name: a string, a value of the wrong type, or missing
NameValues(s) == {StrV(s), IntV(5), Missing}

\* the seven slugs, other spellings of them, unknown categories, a wrong type, missing
CategoryValues == {StrV(CategoryKeys[i]) : i \in 1..Len(CategoryKeys)}
                  \cup {StrV(T_Farming), StrV(T_FARMING), StrV(T_invalid), StrV(T_Invalid),
                        IntV(7), Missing}

\* absent, integers around the number of builds, a value of the wrong type
LimitValues == {Missing, StrV(T_two)} \cup {IntV(n) : n \in -1..(MaxLinks + 1)}

QuestArgBags == {[NoArgs EXCEPT !.quest_name = v] : v \in NameValues(T_QuestName)}
SkillArgBags == {[NoArgs EXCEPT !.skill_name = v] : v \in NameValues(T_SkillName)}
BuildArgBags == {[NoArgs EXCEPT !.category = c, !.limit = l] : c \in CategoryValues, l \in LimitValues}

\* all sequences over S of length at most n
SeqsUpTo(S, n) == UNION {[1..k -> S] : k \in 0..n}

EmptyPage == Page(<<>>, <<>>, None, <<>>)

\* --- quest pages
T_a == <<"a">>
T_b == <<" ","b"," ">>
T_c == <<"c">>
T_blank == <<" ">>
Id_Rewards == <<"R","e","w","a","r","d","s">>

\* the list with n items: its items differ, and the second carries white space
ItemsOfLength(n) == [k \in 1..n |-> IF k = 2 THEN T_b ELSE IF k = 1 THEN T_a ELSE T_c]

QuestBlocks ==
    {Block("h2", i, <<>>, <<>>) : i \in {Id_Objectives, Id_Reward, Id_Rewards, Id_Walkthrough, Id_Notes}}
    \cup {Block("h3", <<>>, T_a, <<>>)}
    \cup {Block("p", <<>>, T_a, <<>>), Block("p", <<>>, T_blank, <<>>)}
    \cup {Block("div", <<>>, T_c, <<>>)}
    \cup {Block("ul", <<>>, <<>>, ItemsOfLength(n)) : n \in 0..MaxItems}
    \cup {Block("ol", <<>>, <<>>, ItemsOfLength(1))}

QuestPages == {Page(bs, <<>>, None, <<>>) : bs \in SeqsUpTo(QuestBlocks, MaxBlocks)}

\* --- skill pages
L_Profession == <<" ","P","r","o","f","e","s","s","i","o","n"," ">>
L_Attribute == <<"A","t","t","r","i","b","u","t","e">>
L_Energy == <<"E","n","e","r","g","y">>
L_Activation == <<"A","c","t","i","v","a","t","i","o","n"," ","t","i","m","e">>
L_Recharge == <<"R","e","c","h","a","r","g","e"," ","t","i","m","e">>
L_Campaign == <<"C","a","m","p","a","i","g","n">>
T_Monk == <<" ","M","o","n","k"," ">>
T_Warrior == <<"W","a","r","r","i","o","r">>
T_10 == <<"1","0">>
T_desc == <<" ","C","a","l","l","s"," ","d","o","w","n"," ","a"," ","s","t","o","r","m","."," ">>

SkillRows == {<<L_Profession, T_Monk>>, <<L_Profession, T_Warrior>>, <<L_Attribute, T_a>>,
              <<L_Energy, T_10>>, <<L_Activation, T_10>>, <<L_Recharge, T_10>>,
              <<L_Campaign, T_a>>, <<L_Energy>>}

Table(box, rows) == [box |-> box, rows |-> rows]
OtherTable == Table(FALSE, <<<<L_Profession, T_Warrior>>, <<L_Energy, T_10>>>>)

SkillTables ==
    {<<>>, <<OtherTable>>}
    \cup UNION {{<<Table(TRUE, r)>>, <<OtherTable, Table(TRUE, r)>>, <<Table(TRUE, r), OtherTable>>,
                 <<Table(TRUE, r), Table(TRUE, <<<<L_Profession, T_Warrior>>>>)>>}
                : r \in SeqsUpTo(SkillRows, MaxRows)}

SkillPages == {Page(<<>>, ts, d, <<>>) : ts \in SkillTables, d \in {None, Some(T_desc)}}

\* --- category pages
H_relative == <<"/","w","i","k","i","/","B","u","i","l","d",":","A">>
H_absolute == <<"h","t","t","p","s",":","/","/","x",".","o","r","g","/","B">>
T_BuildA == <<" ","B","u","i","l","d"," ","A"," ">>
T_BuildB == <<"B","u","i","l","d"," ","B">>
T_BuildC == <<"B","u","i","l","d"," ","C">>

Link(cls, legacy, text, href) == [cls |-> cls, legacy |-> legacy, text |-> text, href |-> href]

Links == {Link(c, l, th[1], th[2]) :
            c \in BOOLEAN, l \in BOOLEAN,
            th \in {<<T_BuildA, Some(H_relative)>>, <<T_BuildB, Some(H_absolute)>>,
                    <<T_BuildC, None>>}}

CategoryPages == {Page(<<>>, <<>>, None, ls) : ls \in SeqsUpTo(Links, MaxLinks)}

(* ----------------------------- dispatcher ----------------------------- *)
VARIABLES
    pc,            \* where the invocation of call_tool stands: idle, awaiting, fetched, done
    name,          \* the tool name of the call
    arguments,     \* the argument bag of the call
    entity,        \* quest_name / skill_name / category, as call_tool holds it
    limit,         \* arguments.get("limit")
    url,           \* the URL the fetcher requests
    fetcherCalls,  \* calls of fetch_wiki_page / fetch_gwpvx_page
    attempts,      \* client.get requests made
    response,      \* how the request ended
    html,          \* what the fetcher returned
    quest_data, skill_data, builds,  \* what the extractor returned
    extractorRuns, \* calls of parse_quest_page / parse_skill_page / parse_pve_builds
    formatterRuns, \* calls of the format_..._response functions
    result,        \* the list call_tool returned
    caught,        \* the exception call_tool's handler caught
    escaped        \* the exception that left call_tool

vars == <<pc, name, arguments, entity, limit, url, fetcherCalls, attempts, response, html,
          quest_data, skill_data, builds, extractorRuns, formatterRuns, result, caught, escaped>>

NoResponse == [kind |-> "none", status |-> 0, body |-> EmptyPage]
StatusResponse(code, body) == [kind |-> "status", status |-> code, body |-> body]
TimeoutResponse == [kind |-> "timeout", status |-> 0, body |-> EmptyPage]
NetworkError == [kind |-> "error", status |-> 0, body |-> EmptyPage]

TextContent(text) == [type |-> "text", text |-> text]

\* how call_tool ends: a returned list, or an exception leaving it
ReturnsText(text) == [result |-> <<TextContent(text)>>, caught |-> NoExc, escaped |-> NoExc]

\* mutant of ExceptHandler: the handler lets the exception out
ExceptHandler_Propagates(e) == [result |-> <<>>, caught |-> NoExc, escaped |-> e]

\* except Exception as e: return [TextContent(type="text", text=f"Error: {str(e)}")]
ExceptHandler(e) ==
    [result |-> <<TextContent(<<Line("Error: {}", <<e.msg>>)>>)>>, caught |-> e, escaped |-> NoExc]

Complete(o) ==
    /\ pc' = "done"
    /\ result' = o.result
    /\ caught' = o.caught
    /\ escaped' = o.escaped

KeyError(key) == Exc("KeyError", key)
NoAttribute(attr) == Exc("AttributeError", attr)
FeatureNotFound == Exc("FeatureNotFound", "Couldn't find a tree builder with the features you requested: lxml. Do you need to install a parser library?")

\* url = f"{WIKI_BASE_URL}/{page_name.replace(' ', '_')}"
WikiUrl(page_name) == WIKI_BASE_URL \o <<"/">> \o ReplaceSpace(page_name)

\* url = f"{GWPVX_BASE_URL}/{path}"
GwpvxUrl(path) == GWPVX_BASE_URL \o <<"/">> \o path

\* mutant of FetcherResult: the body is returned whatever the status
FetcherResult_AnyStatus(r) == IF r.kind = "status" THEN Some(r.body) ELSE None

\* what the fetcher returns for the end of its one request: the body on status 200,
\* None on another status and on any exception of the request
FetcherResult(r) == IF r.kind = "status" /\ r.status = 200 THEN Some(r.body) ELSE None

CouldNotFetchQuest(quest_name) ==
    <<Line("Could not fetch information for quest '{}'. The quest may not exist or there was a network error.", <<quest_name>>)>>
CouldNotFetchSkill(skill_name) ==
    <<Line("Could not fetch information for skill '{}'. The skill may not exist or there was a network error.", <<skill_name>>)>>
CouldNotFetchBuilds(category) ==
    <<Line("Could not fetch PvE builds for category '{}'.", <<category>>)>>

\* mutant of InvalidCategory: the valid options are left out of the message
InvalidCategory_NoOptions(category) == <<Line("Invalid category '{}'.", <<category>>)>>

\* f"Invalid category '{category}'. Valid options: {valid}"
InvalidCategory(category) ==
    <<Line("Invalid category '{}'. Valid options: {}",
           <<category, Join(<<",", " ">>, CategoryKeys)>>)>>

UnknownToolText(n) == <<Line("Unknown tool: {}", <<n>>)>>

Init ==
    /\ pc = "idle"
    /\ name = ""
    /\ arguments = NoArgs
    /\ entity = Missing
    /\ limit = Missing
    /\ url = <<>>
    /\ fetcherCalls = 0
    /\ attempts = 0
    /\ response = NoResponse
    /\ html = None
    /\ quest_data = <<>>
    /\ skill_data = <<>>
    /\ builds = <<>>
    /\ extractorRuns = 0
    /\ formatterRuns = 0
    /\ result = <<>>
    /\ caught = NoExc
    /\ escaped = NoExc

\* the get_quest_info and get_skill_info branches up to the request of fetch_wiki_page
WikiToolStart(tool, value) ==
    /\ name' = tool
    /\ UNCHANGED <<limit, response, html, quest_data, skill_data, builds,
                   extractorRuns, formatterRuns, attempts>>
    /\ IF value.t = "missing"
       THEN /\ Complete(ExceptHandler(KeyError(IF tool = "get_quest_info" THEN "'quest_name'" ELSE "'skill_name'")))
            /\ UNCHANGED <<entity, url, fetcherCalls>>
       ELSE /\ entity' = value
            /\ fetcherCalls' = fetcherCalls + 1
            /\ IF value.t # "str"
               THEN /\ Complete(ExceptHandler(NoAttribute("'int' object has no attribute 'replace'")))
                    /\ UNCHANGED url
               ELSE /\ url' = WikiUrl(value.s)
                    /\ pc' = "awaiting"
                    /\ UNCHANGED <<result, caught, escaped>>

GetQuestInfo ==
    /\ pc = "idle"
    /\ \E args \in QuestArgBags :
          /\ arguments' = args
          /\ WikiToolStart("get_quest_info", args.quest_name)

GetSkillInfo ==
    /\ pc = "idle"
    /\ \E args \in SkillArgBags :
          /\ arguments' = args
          /\ WikiToolStart("get_skill_info", args.skill_name)

\* the get_pve_builds branch up to the request of fetch_gwpvx_page
GetPveBuilds ==
    /\ pc = "idle"
    /\ \E args \in BuildArgBags :
          /\ arguments' = args
          /\ name' = "get_pve_builds"
          /\ UNCHANGED <<response, html, quest_data, skill_data, builds,
                         extractorRuns, formatterRuns, attempts>>
          /\ IF args.category.t = "missing"
             THEN /\ Complete(ExceptHandler(KeyError("'category'")))
                  /\ UNCHANGED <<entity, limit, url, fetcherCalls>>
             ELSE IF args.category.t # "str"
             THEN /\ Complete(ExceptHandler(NoAttribute("'int' object has no attribute 'lower'")))
                  /\ UNCHANGED <<entity, limit, url, fetcherCalls>>
             ELSE LET category == Lower(args.category.s) IN
                  /\ entity' = StrV(category)
                  /\ limit' = args.limit
                  /\ IF ~InCategories(category)
                     THEN /\ Complete(ReturnsText(InvalidCategory(category)))
                          /\ UNCHANGED <<url, fetcherCalls>>
                     ELSE /\ fetcherCalls' = fetcherCalls + 1
                          /\ url' = GwpvxUrl(PVE_BUILD_CATEGORIES(category))
                          /\ pc' = "awaiting"
                          /\ UNCHANGED <<result, caught, escaped>>

\* the else branch of call_tool
UnknownTool ==
    /\ pc = "idle"
    /\ \E n \in ToolNames \ {"get_quest_info", "get_skill_info", "get_pve_builds"} :
          /\ name' = n
          /\ Complete(ReturnsText(UnknownToolText(n)))
    /\ UNCHANGED <<arguments, entity, limit, url, fetcherCalls, attempts, response, html,
                   quest_data, skill_data, builds, extractorRuns, formatterRuns>>

\* the pages the site may answer with, by tool
Bodies == IF name = "get_quest_info" THEN QuestPages
          ELSE IF name = "get_skill_info" THEN SkillPages
          ELSE CategoryPages

Outcomes == {StatusResponse(200, b) : b \in Bodies}
            \cup {StatusResponse(404, EmptyPage), StatusResponse(500, EmptyPage),
                  TimeoutResponse, NetworkError}

\* the one client.get of fetch_wiki_page / fetch_gwpvx_page and the fetcher's return
HttpGet ==
    /\ pc = "awaiting"
    /\ \E r \in Outcomes :
          /\ response' = r
          /\ html' = FetcherResult(r)
    /\ attempts' = attempts + 1
    /\ pc' = "fetched"
    /\ UNCHANGED <<name, arguments, entity, limit, url, fetcherCalls, quest_data, skill_data,
                   builds, extractorRuns, formatterRuns, result, caught, escaped>>

\* get_quest_info after the fetch; lxml: BeautifulSoup finds the parser it is asked for
QuestResume ==
    /\ pc = "fetched"
    /\ name = "get_quest_info"
    /\ UNCHANGED <<name, arguments, entity, limit, url, fetcherCalls, attempts, response, html,
                   skill_data, builds>>
    /\ IF ~html.some
       THEN /\ Complete(ReturnsText(CouldNotFetchQuest(entity.s)))
            /\ UNCHANGED <<quest_data, extractorRuns, formatterRuns>>
       ELSE \E lxml \in BOOLEAN :
            /\ extractorRuns' = extractorRuns + 1
            /\ IF ~lxml
               THEN /\ Complete(ExceptHandler(FeatureNotFound))
                    /\ UNCHANGED <<quest_data, formatterRuns>>
               ELSE /\ quest_data' = parse_quest_page(html.v, entity.s)
                    /\ formatterRuns' = formatterRuns + 1
                    /\ Complete(ReturnsText(format_quest_response(quest_data')))

\* get_skill_info after the fetch
SkillResume ==
    /\ pc = "fetched"
    /\ name = "get_skill_info"
    /\ UNCHANGED <<name, arguments, entity, limit, url, fetcherCalls, attempts, response, html,
                   quest_data, builds>>
    /\ IF ~html.some
       THEN /\ Complete(ReturnsText(CouldNotFetchSkill(entity.s)))
            /\ UNCHANGED <<skill_data, extractorRuns, formatterRuns>>
       ELSE \E lxml \in BOOLEAN :
            /\ extractorRuns' = extractorRuns + 1
            /\ IF ~lxml
               THEN /\ Complete(ExceptHandler(FeatureNotFound))
                    /\ UNCHANGED <<skill_data, formatterRuns>>
               ELSE /\ skill_data' = parse_skill_page(html.v, entity.s)
                    /\ formatterRuns' = formatterRuns + 1
                    /\ Complete(ReturnsText(format_skill_response(skill_data')))

\* get_pve_builds after the fetch
BuildsResume ==
    /\ pc = "fetched"
    /\ name = "get_pve_builds"
    /\ UNCHANGED <<name, arguments, entity, limit, url, fetcherCalls, attempts, response, html,
                   quest_data, skill_data>>
    /\ IF ~html.some
       THEN /\ Complete(ReturnsText(CouldNotFetchBuilds(entity.s)))
            /\ UNCHANGED <<builds, extractorRuns, formatterRuns>>
       ELSE \E lxml \in BOOLEAN :
            /\ extractorRuns' = extractorRuns + 1
            /\ IF ~lxml
               THEN /\ Complete(ExceptHandler(FeatureNotFound))
                    /\ UNCHANGED <<builds, formatterRuns>>
               ELSE /\ builds' = parse_pve_builds(html.v)
                    /\ formatterRuns' = formatterRuns + 1
                    /\ LET out == format_pve_builds_response(entity.s, builds', limit)
                       IN  IF out.raised THEN Complete(ExceptHandler(out.exc))
                           ELSE Complete(ReturnsText(out.text))

Next ==
    \/ GetQuestInfo
    \/ GetSkillInfo
    \/ GetPveBuilds
    \/ UnknownTool
    \/ HttpGet
    \/ QuestResume
    \/ SkillResume
    \/ BuildsResume

Spec == Init /\ [][Next]_vars

(* ======================= properties of the claims ===================== *)
IsQuest == name = "get_quest_info"
IsSkill == name = "get_skill_info"
IsBuilds == name = "get_pve_builds"
Done == pc = "done"

\* the text of the one payload is exactly this line
TextIsLine(lit, args) ==
    /\ Len(result) = 1
    /\ Len(result[1].text) = 1
    /\ result[1].text[1].lit = lit
    /\ result[1].text[1].args = args

OnePayload == Len(result) = 1 /\ result[1].type = "text"

\* where an exception was raised in the invocation, read off its inputs and progress
ArgumentReadingRaised ==
    \/ IsQuest /\ arguments.quest_name.t = "missing"
    \/ IsSkill /\ arguments.skill_name.t = "missing"
    \/ IsBuilds /\ arguments.category.t # "str"
FetcherRaisedBeforeRequest ==
    \/ IsQuest /\ arguments.quest_name.t = "int"
    \/ IsSkill /\ arguments.skill_name.t = "int"
RequestRaised == response.kind \in {"timeout", "error"}
ExtractionRaised == Done /\ extractorRuns = 1 /\ formatterRuns = 0
FormattingRaised ==
    Done /\ IsBuilds /\ formatterRuns = 1 /\ builds # <<>> /\ limit.t = "str" /\ limit.s # <<>>

IsErrorText ==
    /\ Len(result) = 1
    /\ Len(result[1].text) = 1
    /\ result[1].text[1].lit = "Error: {}"

\* C1 as claimed: call_tool returns exactly one text payload and lets no exception
\* out, and an exception raised anywhere in argument reading, fetching, extraction or
\* formatting becomes the text 'Error: {message}'.
C1_AsClaimed ==
    Done =>
      /\ OnePayload
      /\ escaped = NoExc
      /\ (ArgumentReadingRaised \/ FetcherRaisedBeforeRequest \/ RequestRaised
            \/ ExtractionRaised \/ FormattingRaised) => IsErrorText

\* C1 as amended: call_tool returns exactly one text payload and lets no exception
\* out; an exception raised in argument reading, in the fetcher before its request,
\* in extraction or in formatting becomes the text 'Error: {message}' with that
\* exception's message, while an exception raised by the request itself is absorbed
\* by the fetcher and gives the 'Could not fetch' text, not an 'Error:' text.
C1_OnePayloadNoEscape ==
    /\ escaped = NoExc
    /\ ~Done => result = <<>>
    /\ Done =>
         /\ OnePayload
         /\ (ArgumentReadingRaised \/ FetcherRaisedBeforeRequest \/ ExtractionRaised
               \/ FormattingRaised)
              => /\ caught # NoExc
                 /\ TextIsLine("Error: {}", <<caught.msg>>)
         /\ ArgumentReadingRaised =>
              caught.type = (IF IsBuilds /\ arguments.category.t = "int"
                             THEN "AttributeError" ELSE "KeyError")
         /\ FetcherRaisedBeforeRequest => caught.type = "AttributeError"
         /\ ExtractionRaised => caught.type = "FeatureNotFound"
         /\ FormattingRaised => caught.type = "TypeError"
         /\ RequestRaised =>
              /\ caught = NoExc
              /\ result[1].text[1].lit # "Error: {}"

\* C1 witness: a formatting exception (a limit of the wrong type on a non-empty
\* build list) has become the Error text
C1_Witness ==
    /\ Done /\ FormattingRaised
    /\ TextIsLine("Error: {}", <<"slice indices must be integers or None or have an __index__ method">>)

(* ------------------------------- C2 ----------------------------------- *)
SevenSlugs == {Slug_general, Slug_farming, Slug_running, Slug_quest, Slug_hero,
               Slug_speedclear, Slug_teams}
SevenNames == <<"g","e","n","e","r","a","l",","," ","f","a","r","m","i","n","g",","," ","r","u","n","n","i","n","g",","," ","q","u","e","s","t",","," ","h","e","r","o",","," ","s","p","e","e","d","c","l","e","a","r",","," ","t","e","a","m","s">>
SevenUrls == {GWPVX_BASE_URL \o <<"/">> \o PathPrefix \o x \o BuildsSuffix :
                x \in {<<"g","e","n","e","r","a","l">>, <<"f","a","r","m","i","n","g">>, <<"r","u","n","n","i","n","g">>, <<"q","u","e","s","t">>, <<"h","e","r","o">>, <<"S","C">>, <<"P","v","E","_","t","e","a","m">>}}

\* the one text rejects a category and lists the seven valid names
RejectionLists(category) ==
    TextIsLine("Invalid category '{}'. Valid options: {}", <<category, SevenNames>>)

\* C2 as claimed: a get_pve_builds call whose category is not one of the seven slugs
\* starts no fetch and returns one text that names the rejected category and lists
\* the seven valid names.
C2_AsClaimed ==
    (pc # "idle" /\ IsBuilds /\ arguments.category.t = "str"
       /\ arguments.category.s \notin SevenSlugs)
      => /\ fetcherCalls = 0
         /\ attempts = 0
         /\ Done
         /\ RejectionLists(arguments.category.s) \/ RejectionLists(Lower(arguments.category.s))

\* C2 as amended: a get_pve_builds call whose category is a string that, lower-cased,
\* is not one of the seven slugs starts no fetch and returns one text that names the
\* lower-cased category and lists the seven valid names; a category that is missing or
\* not a string starts no fetch either; a fetch is started only for a category whose
\* lower-cased form is one of the seven slugs, at that slug's fixed path.
C2_RejectedBeforeFetch ==
    (pc # "idle" /\ IsBuilds) =>
      /\ (arguments.category.t = "str" /\ Lower(arguments.category.s) \notin SevenSlugs)
           => /\ fetcherCalls = 0
              /\ attempts = 0
              /\ Done
              /\ RejectionLists(Lower(arguments.category.s))
      /\ arguments.category.t # "str" => (fetcherCalls = 0 /\ attempts = 0 /\ Done)
      /\ (fetcherCalls > 0 \/ attempts > 0)
           => /\ arguments.category.t = "str"
              /\ Lower(arguments.category.s) \in SevenSlugs
              /\ url \in SevenUrls
              /\ url = GWPVX_BASE_URL \o <<"/">> \o PathPrefix
                         \o (IF Lower(arguments.category.s) = Slug_speedclear THEN <<"S","C">>
                             ELSE IF Lower(arguments.category.s) = Slug_teams
                                  THEN <<"P","v","E","_","t","e","a","m">>
                             ELSE Lower(arguments.category.s))
                         \o BuildsSuffix

\* C2 witness: the category "Invalid" was rejected, as 'invalid', with no fetch
C2_Witness ==
    /\ Done /\ IsBuilds
    /\ arguments.category = StrV(T_Invalid)
    /\ fetcherCalls = 0
    /\ RejectionLists(T_invalid)

(* ------------------------------- C3 ----------------------------------- *)
IsBullet(l) == l.lit \in {"- {} -- {}", "- {}"}
IsSummary(l) == l.lit = "Showing first {} builds of {} total."
BulletLines(text) == SelectSeq(text, IsBullet)
SummaryLines(text) == SelectSeq(text, IsSummary)

\* the bullet of a build entry: its name, and its url after the dash when it has one
BulletOf(b) == IF b.url = <<>> THEN Line("- {}", <<b.name>>)
               ELSE Line("- {} -- {}", <<b.name, b.url>>)

Formatted == Done /\ IsBuilds /\ formatterRuns = 1 /\ caught = NoExc /\ builds # <<>>

FirstBulletsAndSummary(L) ==
    /\ BulletLines(result[1].text) = [k \in 1..L |-> BulletOf(builds[k])]
    /\ SummaryLines(result[1].text) =
         <<Line("Showing first {} builds of {} total.", <<L, Len(builds)>>)>>
    /\ result[1].text[Len(result[1].text)].lit = "Showing first {} builds of {} total."

AllBulletsNoSummary ==
    /\ BulletLines(result[1].text) = [k \in 1..Len(builds) |-> BulletOf(builds[k])]
    /\ SummaryLines(result[1].text) = <<>>

\* C3 as claimed: for N >= 1 entries and every integer limit L < N (a count of
\* entries, so L >= 0) the text holds exactly the first L bullets and the summary line 'Showing first L builds of N
\* total.'; for L >= N, or limit absent, all N bullets and no summary line.
C3_AsClaimed ==
    Formatted =>
      /\ (limit.t = "int" /\ 0 <= limit.n /\ limit.n < Len(builds)) =>
            FirstBulletsAndSummary(limit.n)
      /\ (limit.t = "missing" \/ (limit.t = "int" /\ limit.n >= Len(builds))) =>
            AllBulletsNoSummary

\* C3 as amended: for N >= 1 entries and every integer limit L with 1 <= L < N the
\* text holds exactly the first L bullets, in order, and the summary line 'Showing
\* first L builds of N total.'; for L >= N, L = 0, or limit absent, all N bullets
\* and no summary line.
C3_Truncation ==
    Formatted =>
      /\ (limit.t = "int" /\ 1 <= limit.n /\ limit.n < Len(builds)) =>
            FirstBulletsAndSummary(limit.n)
      /\ (limit.t = "missing" \/ (limit.t = "int" /\ (limit.n >= Len(builds) \/ limit.n = 0))) =>
            AllBulletsNoSummary

\* C3 witness: two builds and limit 1 gave one bullet and the summary line
C3_Witness ==
    /\ Formatted
    /\ Len(builds) = 2
    /\ limit = IntV(1)
    /\ Len(BulletLines(result[1].text)) = 1
    /\ Len(SummaryLines(result[1].text)) = 1

(* ------------------------------- C4 ----------------------------------- *)
QuestParsed == Done /\ IsQuest /\ formatterRuns = 1

\* C4 as claimed: each of objectives, rewards and notes of the record is absent or a
\* non-empty sequence, also when the section anchor is followed by a list element
\* that has no list items.
C4_AsClaimed ==
    QuestParsed =>
      /\ ~quest_data.objectives.some \/ quest_data.objectives.v # <<>>
      /\ ~quest_data.rewards.some \/ quest_data.rewards.v # <<>>
      /\ ~quest_data.notes.some \/ quest_data.notes.v # <<>>

(* ------------------------------- C5 ----------------------------------- *)
SkillParsed == Done /\ IsSkill /\ formatterRuns = 1
NoSkillBox == \A i \in 1..Len(html.v.tables) : ~html.v.tables[i].box

\* C5: for markup with no table of class skill-box, parse_skill_page returns found =
\* false and every field but name absent, whatever else the markup holds, and
\* format_skill_response gives the single 'not found' line naming the skill.
C5_NoInfoboxNotFound ==
    (SkillParsed /\ NoSkillBox) =>
      /\ skill_data.found = FALSE
      /\ skill_data.name = arguments.skill_name.s
      /\ \A f \in {"type", "profession", "attribute", "campaign", "energy", "activation",
                   "recharge", "description"} : skill_data[f] = None
      /\ TextIsLine("Skill '{}' not found in the Guild Wars Wiki.", <<arguments.skill_name.s>>)

\* C5 witness: a page with a description element and another table with a
\* Profession row, but no skill-box table, was reported not found
C5_Witness ==
    /\ SkillParsed /\ NoSkillBox
    /\ html.v.desc.some
    /\ Len(html.v.tables) = 1
    /\ skill_data.found = FALSE

(* ------------------------------- C6 ----------------------------------- *)
BuildsParsed == Done /\ IsBuilds /\ formatterRuns = 1
MemberLinks == SelectSeq(html.v.links, LAMBDA l : l.cls)
LegacyLinks == SelectSeq(html.v.links, LAMBDA l : l.legacy)
\* the links the entries come from: the member links, or the legacy ones when
\* there is no member link
SourceLinks == IF MemberLinks # <<>> THEN MemberLinks ELSE LegacyLinks
HrefOf(l) == IF l.href.some THEN l.href.v ELSE <<>>

\* C6: an entry's url is the build-wiki base followed by the href when the href begins
\* with '/', and the href unchanged otherwise, for the links of the primary selector
\* and of the legacy fallback selector alike.
C6_UrlRewriting ==
    BuildsParsed =>
      /\ Len(builds) = Len(SourceLinks)
      /\ \A k \in 1..Len(builds) :
           LET href == HrefOf(SourceLinks[k]) IN
           /\ (href # <<>> /\ Head(href) = "/") => builds[k].url = GWPVX_BASE_URL \o href
           /\ (href = <<>> \/ Head(href) # "/") => builds[k].url = href

\* C6 witness: a legacy link with a site-relative href was rewritten and one with an
\* absolute href left as it was
C6_Witness ==
    /\ BuildsParsed
    /\ MemberLinks = <<>>
    /\ Len(builds) = 2
    /\ HrefOf(LegacyLinks[1]) = H_relative
    /\ builds[1].url = GWPVX_BASE_URL \o H_relative
    /\ HrefOf(LegacyLinks[2]) = H_absolute
    /\ builds[2].url = H_absolute

(* ------------------------------- C9 ----------------------------------- *)
NamesOf(links) == [k \in 1..Len(links) |-> Strip(links[k].text)]
EntryNames == [k \in 1..Len(builds) |-> builds[k].name]

\* C9: parse_pve_builds returns one entry per member link, in document order, with no
\* deduplication and no sorting; the legacy links give the entries if and only if
\* there is no member link, and are never mixed with member-link entries.
C9_PrimaryThenLegacy ==
    BuildsParsed =>
      /\ MemberLinks # <<>> =>
           /\ Len(builds) = Len(MemberLinks)
           /\ EntryNames = NamesOf(MemberLinks)
           /\ \A k \in 1..Len(builds) :
                builds[k].url = RewriteHref(HrefOf(MemberLinks[k]))
      /\ MemberLinks = <<>> =>
           /\ Len(builds) = Len(LegacyLinks)
           /\ EntryNames = NamesOf(LegacyLinks)

\* C9 witness: a member link and, before it, a legacy-only link with another name:
\* the one entry is the member link's
C9_Witness ==
    /\ BuildsParsed
    /\ Len(html.v.links) = 2
    /\ html.v.links[1].legacy /\ ~html.v.links[1].cls
    /\ html.v.links[2].cls
    /\ html.v.links[1].text # html.v.links[2].text
    /\ Len(builds) = 1
    /\ builds[1].name = Strip(html.v.links[2].text)

(* ------------------------------- C7 ----------------------------------- *)
IsHeading2(l) == l.lit \in {"## Objectives", "## Rewards", "## Walkthrough", "## Notes"}
Headings(text) == [k \in 1..Len(SelectSeq(text, IsHeading2)) |-> SelectSeq(text, IsHeading2)[k].lit]
HasLine(text, lit) == \E k \in 1..Len(text) : text[k].lit = lit
SectionOrder == <<"## Objectives", "## Rewards", "## Walkthrough", "## Notes">>
FieldOf(h) == CASE h = "## Objectives" -> quest_data.objectives
                [] h = "## Rewards" -> quest_data.rewards
                [] h = "## Walkthrough" -> quest_data.walkthrough
                [] h = "## Notes" -> quest_data.notes

\* the lines that follow the heading at position i are the body of field f
BodyFollows(text, i, h) ==
    IF h = "## Walkthrough"
    THEN i + 1 <= Len(text) /\ text[i+1].lit = "{}" /\ text[i+1].args = <<FieldOf(h).v>>
    ELSE /\ i + Len(FieldOf(h).v) <= Len(text)
         /\ \A k \in 1..Len(FieldOf(h).v) :
              text[i+k].lit = "- {}" /\ text[i+k].args = <<FieldOf(h).v[k]>>

Status200 == response.kind = "status" /\ response.status = 200
RequestEnded == pc \in {"fetched", "done"} /\ response.kind # "none"

CouldNotFetchNamed ==
    \/ IsQuest /\ TextIsLine("Could not fetch information for quest '{}'. The quest may not exist or there was a network error.", <<arguments.quest_name.s>>)
    \/ IsSkill /\ TextIsLine("Could not fetch information for skill '{}'. The skill may not exist or there was a network error.", <<arguments.skill_name.s>>)
    \/ IsBuilds /\ TextIsLine("Could not fetch PvE builds for category '{}'.", <<Lower(arguments.category.s)>>)

FailureHandled ==
    (RequestEnded /\ ~Status200) =>
      /\ html = None
      /\ caught = NoExc /\ escaped = NoExc
      /\ extractorRuns = 0 /\ formatterRuns = 0
      /\ Done => CouldNotFetchNamed

\* C8 as claimed: every invocation that reaches the fetcher makes exactly one fetch
\* attempt; a failed attempt makes the fetcher return absent without raising, runs no
\* extractor and no formatter and gives the 'Could not fetch' text; the extractor and
\* the formatter run only after a status-200 fetch.
C8_AsClaimed ==
    /\ attempts <= 1
    /\ (Done /\ fetcherCalls >= 1) => attempts = 1
    /\ FailureHandled
    /\ (extractorRuns > 0 \/ formatterRuns > 0) => Status200

\* C8 as amended: every invocation that reaches the fetcher with a string as page
\* name or path makes exactly one fetch attempt and never a second (a quest or skill
\* name that is not a string makes fetch_wiki_page raise before any request); a failed
\* attempt makes the fetcher return absent without raising, runs no extractor and no
\* formatter and gives the 'Could not fetch' text naming the quest, skill or category;
\* the extractor and the formatter run only after a status-200 fetch.
C8_OneAttemptNoRetry ==
    /\ attempts <= 1
    /\ fetcherCalls <= 1
    /\ (Done /\ fetcherCalls >= 1 /\ entity.t = "str") => attempts = 1
    /\ (fetcherCalls >= 1 /\ entity.t # "str") => (attempts = 0 /\ Done)
    /\ FailureHandled
    /\ (extractorRuns > 0 \/ formatterRuns > 0) => (Status200 /\ attempts = 1)

\* C8 witness: the one request timed out and the quest invocation ended with the
\* 'Could not fetch' text
C8_Witness ==
    /\ Done /\ IsQuest
    /\ response.kind = "timeout"
    /\ attempts = 1
    /\ CouldNotFetchNamed

(* ------------------------------- C10 ---------------------------------- *)
IsList(b) == b.tag \in {"ul", "ol"}
\* i is the first block with a span of that id, j the first list after it
FirstAnchorAndList(blocks, ident, i, j) ==
    /\ blocks[i].span = ident
    /\ \A m \in 1..(i-1) : blocks[m].span # ident
    /\ i < j
    /\ IsList(blocks[j])
    /\ \A m \in (i+1)..(j-1) : ~IsList(blocks[m])
HasAnchor(blocks, ident) == \E i \in 1..Len(blocks) : blocks[i].span = ident

\* an anchor of that id followed by a list with at least one item gives the field the
\* trimmed texts of the items of that list, in order
SectionExtracted(ident, field) ==
    LET blocks == html.v.blocks IN
    \A i, j \in 1..Len(blocks) :
       (FirstAnchorAndList(blocks, ident, i, j) /\ Len(blocks[j].items) >= 1)
         => /\ field.some
            /\ field.v = [k \in 1..Len(blocks[j].items) |-> Strip(blocks[j].items[k])]

\* C10 as claimed: each section is located by an anchor whose id is the section's
\* label, Objectives, Rewards, Walkthrough or Notes; an anchor of exactly that id
\* followed by a sibling list with at least one item gives the field of Objectives,
\* Rewards and Notes the trimmed item texts in order, whatever other sections exist.
C10_AsClaimed ==
    QuestParsed =>
      /\ SectionExtracted(Id_Objectives, quest_data.objectives)
      /\ SectionExtracted(Id_Rewards, quest_data.rewards)
      /\ SectionExtracted(Id_Notes, quest_data.notes)

\* C10 as amended: the sections are located by span anchors of id Objectives, Reward
\* (singular), Walkthrough and Notes; for each of Objectives, Reward and Notes, when
\* the first anchor of that id has a parent block with a later sibling list, and the
\* first such list has at least one item, the field is the trimmed item texts of that
\* list in order, whatever other sections exist; a field is present only when its
\* anchor exists.
C10_AnchorsLocateSections ==
    QuestParsed =>
      /\ SectionExtracted(Id_Objectives, quest_data.objectives)
      /\ SectionExtracted(Id_Reward, quest_data.rewards)
      /\ SectionExtracted(Id_Notes, quest_data.notes)
      /\ quest_data.objectives.some => HasAnchor(html.v.blocks, Id_Objectives)
      /\ quest_data.rewards.some => HasAnchor(html.v.blocks, Id_Reward)
      /\ quest_data.walkthrough.some => HasAnchor(html.v.blocks, Id_Walkthrough)
      /\ quest_data.notes.some => HasAnchor(html.v.blocks, Id_Notes)

\* C10 witness: the Reward anchor, a paragraph and then a list of two items: the
\* rewards are the two trimmed item texts while objectives and notes are absent
C10_Witness ==
    /\ QuestParsed
    /\ Len(html.v.blocks) = 3
    /\ html.v.blocks[1].span = Id_Reward
    /\ html.v.blocks[2].tag = "p"
    /\ quest_data.rewards = Some(<<T_a, <<"b">>>>)
    /\ ~quest_data.objectives.some
    /\ ~quest_data.notes.some

====
